---------------------------- MODULE Spec2Model ----------------------------
(***************************************************************************)
(* Account REST API Service (service/routes.py).                           *)
(*                                                                         *)
(* The route layer is modelled request by request: one action per view     *)
(* function plus the routing layer's own answers (404, 405, automatic      *)
(* OPTIONS).  The Account table and the Account record's methods live in   *)
(* service/models.py, the error handlers in service/common; both are       *)
(* modelled from their documented contract.  Requests arrive as in the     *)
(* test suite, with the forced redirection to HTTPS switched off; the      *)
(* security and CORS headers added to every response are left out.         *)
(***************************************************************************)
EXTENDS Integers, Sequences, FiniteSets, TLC

\* Most rows the Account table holds in the model.
MaxAccounts == 2

VARIABLES
    accounts,        \* the Account table: rows in insertion order
    id_seq,          \* the table's id sequence: the id the next insert gets
    request,         \* the request handled last
    response,        \* the response returned for it
    accounts_before, \* history: the table when that request arrived
    created,         \* history: the number of 201 responses so far
    remembered       \* history: one earlier read, its response, and the reads
                     \* served since; forgotten when a write request arrives

vars == <<accounts, id_seq, request, response, accounts_before, created, remembered>>

-----------------------------------------------------------------------------
(* Values *)

\* Python's None / a JSON key that is not in the object / a header not sent.
None == "None"

HTTP_200_OK == 200
HTTP_201_CREATED == 201
HTTP_204_NO_CONTENT == 204
HTTP_400_BAD_REQUEST == 400
HTTP_404_NOT_FOUND == 404
HTTP_405_METHOD_NOT_ALLOWED == 405
HTTP_415_UNSUPPORTED_MEDIA_TYPE == 415

Verbs == {"GET", "HEAD", "OPTIONS", "POST", "PUT", "PATCH", "DELETE"}

Names == {"Bea"}
Emails == {"b@x.com"}
Addresses == {"1 Rd"}
PhoneNumbers == {"555-0100"}

\* datetime.date values, as <<year, month, day>>.
Dates == {<<2024, 1, 1>>, <<2024, 1, 2>>}

\* date.today() on the day the service runs.
Today == <<2024, 1, 1>>

\* date.isoformat(): the string a date is rendered as.
isoformat(d) ==
    CASE d = <<2024, 1, 1>> -> "2024-01-01"
      [] d = <<2024, 1, 2>> -> "2024-01-02"

\* date.fromisoformat(): the date a string stands for.
fromisoformat(s) == CHOOSE d \in Dates : isoformat(d) = s

\* The Content-Type values a client sends (None: no such header).
ContentTypes ==
    {None, "", "application/json", "application/json; charset=utf-8",
     "test/html"}

\* A JSON object sent as a body: each key holds a string or is absent (None).
Payloads ==
    [name : Names \cup {None},
     email : Emails \cup {None},
     address : Addresses \cup {None},
     phone_number : PhoneNumbers \cup {None},
     date_joined : {None, "2024-01-02"}]

NoPayload ==
    [name |-> None, email |-> None, address |-> None,
     phone_number |-> None, date_joined |-> None]

\* A request body: bytes that parse as a JSON object, or that do not parse.
Bodies ==
    {[parses |-> TRUE, json |-> p] : p \in Payloads}
        \cup {[parses |-> FALSE, json |-> NoPayload]}

NoBody == [parses |-> FALSE, json |-> NoPayload]

ValidPayloads ==
    {p \in Payloads : p.name # None /\ p.email # None /\ p.address # None}

\* The payload of the specification's scenario, and the same without an email.
ScenarioPayload ==
    [name |-> "Bea", email |-> "b@x.com", address |-> "1 Rd",
     phone_number |-> "555-0100", date_joined |-> None]

\* Bodies sent along with a Content-Type that is not JSON, and with PUT: one
\* that does not parse, one that is a valid Account, one that is not.
SampleBodies ==
    {NoBody,
     [parses |-> TRUE, json |-> ScenarioPayload],
     [parses |-> TRUE, json |-> [ScenarioPayload EXCEPT !.email = None]]}

\* Paths, as their segments: / is <<>>, /accounts/7 is <<"accounts", 7>>.
\* Id 0 is never assigned and id MaxAccounts + 1 is never reached; the others
\* are the ids the table can hold.
AccountIds == 0 .. (MaxAccounts + 1)

KnownPaths ==
    {<<>>, <<"health">>, <<"accounts">>}
        \cup {<<"accounts", i>> : i \in AccountIds}

Requests ==
    [verb : {"POST"}, path : {<<"accounts">>},
     content_type : {"application/json"}, body : Bodies]
    \cup
    [verb : {"POST"}, path : {<<"accounts">>},
     content_type : ContentTypes \ {"application/json"}, body : SampleBodies]
    \cup
    [verb : {"PUT"}, path : {<<"accounts", i>> : i \in AccountIds},
     content_type : {"application/json"},
     body : {[parses |-> TRUE, json |-> ScenarioPayload]}]
    \cup
    [verb : Verbs, path : KnownPaths, content_type : {None}, body : {NoBody}]
    \cup
    [verb : {"GET"}, path : {<<"nowhere">>}, content_type : {None},
     body : {NoBody}]

-----------------------------------------------------------------------------
(* The Account record and its table (service/models.py) *)

\* Account.deserialize(data): the three required keys must be there; the phone
\* number is optional; date_joined is parsed, or defaults to today.  The id is
\* left unset (None).  ok is FALSE where the code raises DataValidationError.
deserialize(data) ==
    IF data.name = None \/ data.email = None \/ data.address = None
    THEN [ok |-> FALSE, account |-> NoPayload]
    ELSE [ok |-> TRUE,
          account |->
              [name |-> data.name,
               email |-> data.email,
               address |-> data.address,
               phone_number |-> data.phone_number,
               date_joined |->
                   IF data.date_joined = None
                   THEN Today
                   ELSE fromisoformat(data.date_joined)]]

\* Account.create(): one row inserted, its id drawn from the table's sequence.
create(account, rows, seq) ==
    [account |->
         [id |-> seq,
          name |-> account.name,
          email |-> account.email,
          address |-> account.address,
          phone_number |-> account.phone_number,
          date_joined |-> account.date_joined],
     accounts |->
         Append(rows,
                [id |-> seq,
                 name |-> account.name,
                 email |-> account.email,
                 address |-> account.address,
                 phone_number |-> account.phone_number,
                 date_joined |-> account.date_joined]),
     id_seq |-> seq + 1]

\* Account.serialize(): every field, the date rendered as a string.
serialize(account) ==
    [id |-> account.id,
     name |-> account.name,
     email |-> account.email,
     address |-> account.address,
     phone_number |-> account.phone_number,
     date_joined |-> isoformat(account.date_joined)]

\* Account.find(by_id): the row with that id as <<row>>, or <<>> for None.
find(rows, by_id) ==
    SelectSeq(rows, LAMBDA row : row.id = by_id)

\* Account.all(): every row of the table.
all(rows) == rows

\* The ids the table holds.
Ids(rows) == {rows[i].id : i \in 1 .. Len(rows)}

-----------------------------------------------------------------------------
(* Responses *)

NoHeaders == [Location |-> None, Allow |-> {}]

\* A response body is <<>> (empty) or <<document>>.
Response(status, body, headers) ==
    [status |-> status, body |-> body, headers |-> headers]

\* abort(status, message) as the service's error handlers render it: a JSON
\* document carrying the status and the message (its pieces, in order).
abort(status, message) ==
    Response(status, <<[status |-> status, message |-> message]>>, NoHeaders)

\* What a view function hands back: the response and the table it leaves.
Result(resp, rows, seq) ==
    [response |-> resp, accounts |-> rows, id_seq |-> seq]

-----------------------------------------------------------------------------
(* Text *)

Digits == <<"0", "1", "2", "3", "4", "5", "6", "7", "8", "9">>

\* str(n) for an integer n >= 0, as the sequence of its decimal digits.
RECURSIVE str(_)
str(n) ==
    IF n < 10
    THEN <<Digits[n + 1]>>
    ELSE str(n \div 10) \o <<Digits[(n % 10) + 1]>>

\* Whether the pieces of part occur in text, in order and side by side.
Contains(text, part) ==
    \E k \in 0 .. (Len(text) - Len(part)) :
        \A j \in 1 .. Len(part) : text[k + j] = part[j]

-----------------------------------------------------------------------------
(* The URL map: the @app.route declarations *)

\* Mutant of Routes: the list route is declared with DELETE as well.
Routes_DeleteOnList ==
    {[rule |-> "/health", methods |-> {"GET"}, endpoint |-> "health"],
     [rule |-> "/", methods |-> {"GET"}, endpoint |-> "index"],
     [rule |-> "/accounts", methods |-> {"POST"}, endpoint |-> "create_accounts"],
     [rule |-> "/accounts", methods |-> {"GET", "DELETE"},
      endpoint |-> "list_accounts"],
     [rule |-> "/accounts/<int:account_id>", methods |-> {"GET"},
      endpoint |-> "read_account"]}

\* Each rule with the methods its declaration names (GET when it names none).
Routes ==
    {[rule |-> "/health", methods |-> {"GET"}, endpoint |-> "health"],
     [rule |-> "/", methods |-> {"GET"}, endpoint |-> "index"],
     [rule |-> "/accounts", methods |-> {"POST"}, endpoint |-> "create_accounts"],
     [rule |-> "/accounts", methods |-> {"GET"}, endpoint |-> "list_accounts"],
     [rule |-> "/accounts/<int:account_id>", methods |-> {"GET"},
      endpoint |-> "read_account"]}

\* Whether a rule's pattern matches a path; <int:...> takes an integer >= 0.
RuleMatches(rule, path) ==
    CASE rule = "/health" -> path = <<"health">>
      [] rule = "/" -> path = <<>>
      [] rule = "/accounts" -> path = <<"accounts">>
      [] rule = "/accounts/<int:account_id>" ->
            Len(path) = 2 /\ path[1] = "accounts" /\ path[2] \in Nat
      [] OTHER -> FALSE

\* The methods a route answers: those declared, HEAD wherever GET is declared,
\* and OPTIONS, which the framework answers itself.
AllowedMethods(route) ==
    route.methods
        \cup (IF "GET" \in route.methods THEN {"HEAD"} ELSE {})
        \cup {"OPTIONS"}

Matching(path) == {r \in Routes : RuleMatches(r.rule, path)}

\* Every method some rule matching the path answers (the Allow header).
Allow(path) == UNION {AllowedMethods(r) : r \in Matching(path)}

\* The routing layer's dispatch: the endpoint a request goes to, or the
\* routing layer's own answer.
Dispatch(req) ==
    IF Matching(req.path) = {} THEN "not_found"
    ELSE IF req.verb \notin Allow(req.path) THEN "method_not_allowed"
    ELSE IF req.verb = "OPTIONS" THEN "options"
    ELSE LET verb == IF req.verb = "HEAD" THEN "GET" ELSE req.verb
         IN (CHOOSE r \in Matching(req.path) : verb \in r.methods).endpoint

\* A HEAD request runs the GET view; its response goes out without the body.
Finish(req, resp) ==
    IF req.verb = "HEAD" THEN [resp EXCEPT !.body = <<>>] ELSE resp

-----------------------------------------------------------------------------
(* The view functions *)

\* Mutant of check_content_type: a request without the header passes.
check_content_type_Lax(req, media_type) ==
    req.content_type = None \/ req.content_type = media_type

\* check_content_type(media_type): TRUE where the code returns, FALSE where it
\* aborts with 415.  An absent or empty header is falsy.
check_content_type(req, media_type) ==
    /\ req.content_type # None
    /\ req.content_type # ""
    /\ req.content_type = media_type

health(req, rows, seq) ==
    Result(Response(HTTP_200_OK, <<[status |-> "OK"]>>, NoHeaders), rows, seq)

index(req, rows, seq) ==
    Result(Response(HTTP_200_OK,
                    <<[name |-> "Account REST API Service", version |-> "1.0"]>>,
                    NoHeaders),
           rows, seq)

\* Mutant of create_accounts: account.create() is left out, nothing is saved.
create_accounts_Unsaved(req, rows, seq) ==
    IF ~check_content_type(req, "application/json")
    THEN Result(abort(HTTP_415_UNSUPPORTED_MEDIA_TYPE,
                      <<"Content-Type must be ", "application/json">>),
                rows, seq)
    ELSE IF ~req.body.parses
    THEN Result(abort(HTTP_400_BAD_REQUEST, <<"Bad Request">>), rows, seq)
    ELSE IF ~deserialize(req.body.json).ok
    THEN Result(abort(HTTP_400_BAD_REQUEST, <<"Invalid Account">>), rows, seq)
    ELSE Result(Response(HTTP_201_CREATED,
                         <<serialize(create(deserialize(req.body.json).account,
                                            rows, seq).account)>>,
                         [NoHeaders EXCEPT !.Location = "/"]),
                rows, seq)

\* Mutant of create_accounts: the row is saved before the payload is looked
\* at, so a payload that fails deserialization leaves a row behind.
create_accounts_SaveFirst(req, rows, seq) ==
    IF ~check_content_type(req, "application/json")
    THEN Result(abort(HTTP_415_UNSUPPORTED_MEDIA_TYPE,
                      <<"Content-Type must be ", "application/json">>),
                rows, seq)
    ELSE IF ~req.body.parses
    THEN Result(abort(HTTP_400_BAD_REQUEST, <<"Bad Request">>), rows, seq)
    ELSE IF ~deserialize(req.body.json).ok
    THEN Result(abort(HTTP_400_BAD_REQUEST, <<"Invalid Account">>),
                create([req.body.json EXCEPT !.date_joined = Today],
                       rows, seq).accounts,
                seq + 1)
    ELSE LET made == create(deserialize(req.body.json).account, rows, seq)
         IN Result(Response(HTTP_201_CREATED,
                            <<serialize(made.account)>>,
                            [NoHeaders EXCEPT !.Location = "/"]),
                   made.accounts, made.id_seq)

create_accounts(req, rows, seq) ==
    IF ~check_content_type(req, "application/json")
    THEN Result(abort(HTTP_415_UNSUPPORTED_MEDIA_TYPE,
                      <<"Content-Type must be ", "application/json">>),
                rows, seq)
    ELSE IF ~req.body.parses
    THEN Result(abort(HTTP_400_BAD_REQUEST, <<"Bad Request">>), rows, seq)
    ELSE IF ~deserialize(req.body.json).ok
    THEN Result(abort(HTTP_400_BAD_REQUEST, <<"Invalid Account">>), rows, seq)
    ELSE LET made == create(deserialize(req.body.json).account, rows, seq)
             location_url == "/"
         IN Result(Response(HTTP_201_CREATED,
                            <<serialize(made.account)>>,
                            [NoHeaders EXCEPT !.Location = location_url]),
                   made.accounts, made.id_seq)

\* Mutant of list_accounts: the first account is left out of the list.
list_accounts_SkipFirst(req, rows, seq) ==
    LET accounts_serialized ==
            [i \in 1 .. (Len(all(rows)) - 1) |-> serialize(all(rows)[i + 1])]
    IN Result(Response(HTTP_200_OK, <<accounts_serialized>>, NoHeaders),
              rows, seq)

list_accounts(req, rows, seq) ==
    LET accounts_serialized ==
            [i \in 1 .. Len(all(rows)) |-> serialize(all(rows)[i])]
    IN Result(Response(HTTP_200_OK, <<accounts_serialized>>, NoHeaders),
              rows, seq)

\* Mutant of read_account: the 404 message does not name the id.
read_account_NoId(req, rows, seq) ==
    LET account_id == req.path[2]
        account == find(rows, account_id)
    IN IF account = <<>>
       THEN Result(abort(HTTP_404_NOT_FOUND, <<"Account could not be found.">>),
                   rows, seq)
       ELSE Result(Response(HTTP_200_OK, <<serialize(account[1])>>, NoHeaders),
                   rows, seq)

\* Mutant of read_account: a record that is read is taken out of the table.
read_account_Consuming(req, rows, seq) ==
    LET account_id == req.path[2]
        account == find(rows, account_id)
    IN IF account = <<>>
       THEN Result(abort(HTTP_404_NOT_FOUND,
                         <<"Account with id: ">> \o str(account_id)
                             \o <<" could not be found.">>),
                   rows, seq)
       ELSE Result(Response(HTTP_200_OK, <<serialize(account[1])>>, NoHeaders),
                   SelectSeq(rows, LAMBDA row : row.id # account_id), seq)

read_account(req, rows, seq) ==
    LET account_id == req.path[2]
        account == find(rows, account_id)
    IN IF account = <<>>
       THEN Result(abort(HTTP_404_NOT_FOUND,
                         <<"Account with id: ">> \o str(account_id)
                             \o <<" could not be found.">>),
                   rows, seq)
       ELSE Result(Response(HTTP_200_OK, <<serialize(account[1])>>, NoHeaders),
                   rows, seq)

\* The routing layer's answers.
not_found(req, rows, seq) ==
    Result(abort(HTTP_404_NOT_FOUND, <<"Not Found">>), rows, seq)

method_not_allowed(req, rows, seq) ==
    Result(Response(HTTP_405_METHOD_NOT_ALLOWED,
                    <<[status |-> HTTP_405_METHOD_NOT_ALLOWED,
                       message |-> <<"Method not Allowed">>]>>,
                    [NoHeaders EXCEPT !.Allow = Allow(req.path)]),
           rows, seq)

options(req, rows, seq) ==
    Result(Response(HTTP_200_OK, <<>>,
                    [NoHeaders EXCEPT !.Allow = Allow(req.path)]),
           rows, seq)

-----------------------------------------------------------------------------
(* The service, request by request *)

NoRequest ==
    [verb |-> None, path |-> <<>>, content_type |-> None, body |-> NoBody]

NoResponse == Response(0, <<>>, NoHeaders)

\* The read-only endpoints: GET on a path some rule matches.
IsRead(req) == req.verb = "GET" /\ Matching(req.path) # {}

\* A request that asks for a change: a create, an update or a delete.
IsWrite(req) == req.verb \in {"POST", "PUT", "PATCH", "DELETE"}

Init ==
    /\ accounts = <<>>
    /\ id_seq = 1
    /\ request = NoRequest
    /\ response = NoResponse
    /\ accounts_before = <<>>
    /\ created = 0
    /\ remembered = <<>>

\* The remembered read, once a later read has been served.
Aged(memo) ==
    IF memo = <<>>
    THEN memo
    ELSE <<[memo[1] EXCEPT !.followed = TRUE]>>

\* One request served: the view's result becomes the state, and the history
\* variables record what an observer of the service would have noted.
Serve(req, res) ==
    /\ Len(res.accounts) <= MaxAccounts
    /\ request' = req
    /\ response' = Finish(req, res.response)
    /\ accounts' = res.accounts
    /\ id_seq' = res.id_seq
    /\ accounts_before' = accounts
    /\ created' =
           IF res.response.status = HTTP_201_CREATED THEN created + 1 ELSE created
    /\ remembered' \in
           IF IsWrite(req) THEN {<<>>}
           ELSE IF IsRead(req)
           THEN {Aged(remembered),
                 <<[request |-> req,
                    response |-> Finish(req, res.response),
                    followed |-> FALSE]>>}
           ELSE {remembered}

\* The requests the routing layer hands to each endpoint.
RequestsToHealth == {req \in Requests : Dispatch(req) = "health"}
RequestsToIndex == {req \in Requests : Dispatch(req) = "index"}
RequestsToCreateAccounts == {req \in Requests : Dispatch(req) = "create_accounts"}
RequestsToListAccounts == {req \in Requests : Dispatch(req) = "list_accounts"}
RequestsToReadAccount == {req \in Requests : Dispatch(req) = "read_account"}
RequestsToNotFound == {req \in Requests : Dispatch(req) = "not_found"}
RequestsToMethodNotAllowed == {req \in Requests : Dispatch(req) = "method_not_allowed"}
RequestsToOptions == {req \in Requests : Dispatch(req) = "options"}

Health ==
    \E req \in RequestsToHealth :
        Serve(req, health(req, accounts, id_seq))

Index ==
    \E req \in RequestsToIndex :
        Serve(req, index(req, accounts, id_seq))

CreateAccounts ==
    \E req \in RequestsToCreateAccounts :
        Serve(req, create_accounts(req, accounts, id_seq))

ListAccounts ==
    \E req \in RequestsToListAccounts :
        Serve(req, list_accounts(req, accounts, id_seq))

ReadAccount ==
    \E req \in RequestsToReadAccount :
        Serve(req, read_account(req, accounts, id_seq))

NotFound ==
    \E req \in RequestsToNotFound :
        Serve(req, not_found(req, accounts, id_seq))

MethodNotAllowed ==
    \E req \in RequestsToMethodNotAllowed :
        Serve(req, method_not_allowed(req, accounts, id_seq))

Options ==
    \E req \in RequestsToOptions :
        Serve(req, options(req, accounts, id_seq))

Next ==
    \/ Health
    \/ Index
    \/ CreateAccounts
    \/ ListAccounts
    \/ ReadAccount
    \/ NotFound
    \/ MethodNotAllowed
    \/ Options

Spec == Init /\ [][Next]_vars

-----------------------------------------------------------------------------
(* What the last request was *)

IsAccountPath(path) == Len(path) = 2 /\ path[1] = "accounts"

IsPostAccounts == request.verb = "POST" /\ request.path = <<"accounts">>

IsJsonPost == IsPostAccounts /\ request.content_type = "application/json"

IsValidCreate ==
    IsJsonPost /\ request.body.parses /\ request.body.json \in ValidPayloads

IsGetAccount == request.verb = "GET" /\ IsAccountPath(request.path)

IsListAccounts == request.verb = "GET" /\ request.path = <<"accounts">>

IsValidPut ==
    /\ request.verb = "PUT"
    /\ IsAccountPath(request.path)
    /\ request.content_type = "application/json"
    /\ request.body.parses
    /\ request.body.json \in ValidPayloads

IsDeleteAccount == request.verb = "DELETE" /\ IsAccountPath(request.path)

\* The table is the one before the request with one row added at the end.
OneRowAdded ==
    /\ Len(accounts) = Len(accounts_before) + 1
    /\ SubSeq(accounts, 1, Len(accounts_before)) = accounts_before

-----------------------------------------------------------------------------
(* Claims *)

\* C1: a POST /accounts with Content-Type application/json and a valid payload
\* P is answered 201 with a Location header; the body is the serialized new
\* record, whose name, email, address and phone_number are those of P and whose
\* id no record held before; the table afterwards is the table before plus
\* exactly that record.
C1_CreateReturnsNewRecord ==
    IsValidCreate =>
        /\ response.status = HTTP_201_CREATED
        /\ response.headers.Location # None
        /\ Len(response.body) = 1
        /\ response.body[1].name = request.body.json.name
        /\ response.body[1].email = request.body.json.email
        /\ response.body[1].address = request.body.json.address
        /\ response.body[1].phone_number = request.body.json.phone_number
        /\ OneRowAdded
        /\ response.body[1].id \notin Ids(accounts_before)
        /\ serialize(accounts[Len(accounts)]) = response.body[1]

\* C1 witness: a valid create answered 201 on a table that already held a row.
C1_Witness ==
    /\ IsValidCreate
    /\ response.status = HTTP_201_CREATED
    /\ Len(accounts_before) >= 1
    /\ request.body.json.phone_number # None

\* C2: GET /accounts/{id} is answered 200 with the serialized record of that id
\* when the table holds one, and 404 with a message containing the id when it
\* holds none.
C2_ReadFindsOrReports404 ==
    IsGetAccount =>
        IF request.path[2] \in Ids(accounts_before)
        THEN /\ response.status = HTTP_200_OK
             /\ Len(response.body) = 1
             /\ response.body[1].id = request.path[2]
             /\ \E i \in 1 .. Len(accounts_before) :
                    /\ accounts_before[i].id = request.path[2]
                    /\ response.body[1] = serialize(accounts_before[i])
        ELSE /\ response.status = HTTP_404_NOT_FOUND
             /\ Len(response.body) = 1
             /\ Contains(response.body[1].message, str(request.path[2]))

\* C2 witness (found): a record other than the first one is read.
C2_Witness ==
    /\ IsGetAccount
    /\ response.status = HTTP_200_OK
    /\ request.path[2] = 2

\* C2 witness (not found): an id above every stored one, on a table with rows.
C2_WitnessNotFound ==
    /\ IsGetAccount
    /\ response.status = HTTP_404_NOT_FOUND
    /\ request.path[2] > 0
    /\ Len(accounts_before) >= 1

\* C3: from an empty table, after N successful creates (failed creates and
\* other requests in between), GET /accounts is answered 200 with an array of
\* exactly N entries, one per stored record, none twice and none left out;
\* with no create so far the array is empty.
C3_ListHasOneEntryPerCreate ==
    IsListAccounts =>
        /\ response.status = HTTP_200_OK
        /\ Len(response.body) = 1
        /\ Len(response.body[1]) = created
        /\ \A i, j \in 1 .. Len(response.body[1]) :
               i # j => response.body[1][i] # response.body[1][j]
        /\ {response.body[1][i] : i \in 1 .. Len(response.body[1])}
               = {serialize(accounts[i]) : i \in 1 .. Len(accounts)}
        /\ (created = 0 => response.body[1] = <<>>)

\* C3 witness: a listing after two creates, two of whose fields are alike.
C3_Witness ==
    /\ IsListAccounts
    /\ created >= 2
    /\ Len(response.body[1]) >= 2
    /\ response.body[1][1].phone_number = response.body[1][2].phone_number

\* C4: PUT /accounts/{id} on a stored record with a valid JSON body is
\* answered 200 with the serialized updated record: the mutable fields are the
\* body's, the id is unchanged, the table has as many rows as before, and the
\* record found under the id afterwards (what a later GET returns) carries the
\* updated values.
C4_UpdateReturnsUpdatedRecord ==
    (IsValidPut /\ request.path[2] \in Ids(accounts_before)) =>
        /\ response.status = HTTP_200_OK
        /\ Len(response.body) = 1
        /\ response.body[1].id = request.path[2]
        /\ response.body[1].name = request.body.json.name
        /\ response.body[1].email = request.body.json.email
        /\ response.body[1].address = request.body.json.address
        /\ response.body[1].phone_number = request.body.json.phone_number
        /\ Len(accounts) = Len(accounts_before)
        /\ Len(find(accounts, request.path[2])) = 1
        /\ serialize(find(accounts, request.path[2])[1]) = response.body[1]

\* C5: DELETE /accounts/{id} on a stored record is answered 204 with an empty
\* body and removes exactly that record, so that find-by-id reports absence.
C5_DeleteRemovesRecord ==
    (IsDeleteAccount /\ request.path[2] \in Ids(accounts_before)) =>
        /\ response.status = HTTP_204_NO_CONTENT
        /\ response.body = <<>>
        /\ find(accounts, request.path[2]) = <<>>
        /\ accounts =
               SelectSeq(accounts_before, LAMBDA row : row.id # request.path[2])

\* C6: PUT and DELETE /accounts/{id} for an id no stored record has are
\* answered 404 and leave the table as it was.
C6_UnknownIdIs404 ==
    ((request.verb \in {"PUT", "DELETE"}
        /\ IsAccountPath(request.path)
        /\ request.path[2] \notin Ids(accounts_before))) =>
        /\ response.status = HTTP_404_NOT_FOUND
        /\ accounts = accounts_before

\* C7: a POST /accounts whose Content-Type is absent or anything other than
\* exactly application/json is answered 415 and persists no row, whether or
\* not its body would deserialize.
C7_WrongContentTypeIs415 ==
    (IsPostAccounts /\ request.content_type # "application/json") =>
        /\ response.status = HTTP_415_UNSUPPORTED_MEDIA_TYPE
        /\ accounts = accounts_before

\* C7 witness: no Content-Type at all, with a body that is a valid Account.
C7_Witness ==
    /\ IsPostAccounts
    /\ request.content_type = None
    /\ request.body.parses
    /\ request.body.json \in ValidPayloads
    /\ response.status = HTTP_415_UNSUPPORTED_MEDIA_TYPE
    /\ Len(accounts_before) >= 1

\* C8: a POST /accounts with Content-Type application/json whose payload lacks
\* name, email or address is answered 400 and leaves the table as it was.
C8_MissingFieldIs400 ==
    (IsJsonPost /\ request.body.parses /\ request.body.json \notin ValidPayloads) =>
        /\ response.status = HTTP_400_BAD_REQUEST
        /\ accounts = accounts_before

\* C8 witness: only the address is missing, on a table that has room and rows.
C8_Witness ==
    /\ IsJsonPost
    /\ request.body.parses
    /\ request.body.json.name # None
    /\ request.body.json.email # None
    /\ request.body.json.address = None
    /\ response.status = HTTP_400_BAD_REQUEST
    /\ Len(accounts_before) = 1

\* The verbs neither the route declarations nor the documented contract give
\* each known path (HEAD and OPTIONS are answered by the framework).
C9_Unsupported(path) ==
    CASE path = <<"accounts">> -> {"PUT", "PATCH", "DELETE"}
      [] IsAccountPath(path) -> {"POST", "PATCH"}
      [] OTHER -> {"POST", "PUT", "PATCH", "DELETE"}

\* C9: on every known path (/health, /, /accounts, /accounts/{id}) a verb the
\* path does not support is answered 405 and leaves the table as it was; in
\* particular DELETE /accounts is answered 405.
C9_UnsupportedVerbIs405 ==
    (request.path \in KnownPaths /\ request.verb \in C9_Unsupported(request.path)) =>
        /\ response.status = HTTP_405_METHOD_NOT_ALLOWED
        /\ accounts = accounts_before

\* C9 witness: DELETE /accounts on a table with rows.
C9_Witness ==
    /\ request.verb = "DELETE"
    /\ request.path = <<"accounts">>
    /\ response.status = HTTP_405_METHOD_NOT_ALLOWED
    /\ Len(accounts) >= 1

\* C10: GET /health, GET /, GET /accounts and GET /accounts/{id} leave the
\* table as it was, whether answered 200 or 404, and a read repeated with no
\* create, update or delete request since the earlier one, whatever other
\* reads came between, is answered with the same status and body.
C10_ReadsChangeNothingAndRepeat ==
    IsRead(request) =>
        /\ accounts = accounts_before
        /\ response.status \in {HTTP_200_OK, HTTP_404_NOT_FOUND}
        /\ (remembered # <<>> /\ remembered[1].request = request) =>
               /\ response.status = remembered[1].response.status
               /\ response.body = remembered[1].response.body

\* C10 witness: a record is read again after an earlier, remembered read of it.
C10_Witness ==
    /\ IsGetAccount
    /\ response.status = HTTP_200_OK
    /\ remembered # <<>>
    /\ remembered[1].request = request
    /\ remembered[1].followed

=============================================================================
